---- MODULE Spec2Model ----
(***************************************************************************)
(* Model of the scheduling API's time-slot service                         *)
(* (src/src/services/timeSlotService.js) running on PostgreSQL at the      *)
(* default READ COMMITTED isolation level: concurrent request handlers,     *)
(* each inside withTransaction (src/src/utils/responseHandler.js), issue   *)
(* their statements one await at a time against the time_slots table.      *)
(* Instants are minutes since 2025-01-01T00:00Z.                           *)
(***************************************************************************)
EXTENDS Integers, Sequences, FiniteSets, TLC

\* ------------------------------------------------------------------ bounds
NumProcs == 2          \* concurrent request handlers of the general specification
NumRacers == 3         \* concurrent callers of the reservation race
MaxCalls == 2          \* calls started in one behaviour
MaxTicks == 1          \* clock advances in one behaviour
MaxMonth == 35         \* months the calendar reaches from January 2025
MaxOccurrences == 12   \* occurrences one run of the recurrence loop may hold
PoolSize == 2          \* clients of the connection pool where the pool is modelled

\* --------------------------------------------------------------- constants
MIN_DURATION_MINUTES == 30
MAX_DURATION_MINUTES == 480
MinutesPerDay == 24 * 60
MinutesPerWeek == 7 * MinutesPerDay

Procs == 1..NumProcs
Racers == 1..NumRacers
AllProcs == 1..(IF NumProcs > NumRacers THEN NumProcs ELSE NumRacers)

NULL == "NULL"
Consultants == {"consultant1", "consultant2"}
Customers == {"customer1", "customer2"}
UnknownCustomer == "customer9"
UnknownSlotIds == {99}
MalformedSlotIds == {0 - 1}     \* stands for a string that is no UUID ('not-a-uuid')
TickSteps == {615}

\* request inputs the handlers are driven with
Intervals == {<<600, 660>>, <<630, 690>>, <<660, 720>>, <<600, 600>>}
\* a recurrence rule: `until` is the wall-clock reading of its date string, zulu
\* tells whether the string carries the 'Z' offset
Rule(frequency, until, zulu) == [frequency |-> frequency, until |-> until, zulu |-> zulu]
NoRecurring == Rule("none", 0, TRUE)
Recurrings == {NoRecurring,
               Rule("weekly", 600 + MinutesPerWeek, TRUE),
               Rule("monthly", 600 + 31 * MinutesPerDay, TRUE)}

\* error messages of the service and its callers
MsgOk == "ok"
MsgNone == "none"
MsgOverlap == "Time slot overlaps with existing slot"
MsgNotFound == "Time slot not found"
MsgUnavailable == "Time slot is not available"
MsgBooked == "Cannot delete booked time slots"
MsgCustomerNotFound == "Customer not found"
MsgEndBeforeStart == "End time must be after start time"
MsgPast == "Cannot create slots in the past"
MsgDuration == "Invalid slot duration"
MsgForeignKey == "Referenced record not found"
MsgStorage == "storage failure"
MsgDeleted == "Time slot deleted successfully"
MsgInvalidId == "Invalid slot ID format"
MsgInvalidSyntax == "invalid input syntax for type uuid"

VARIABLES
  slots,      \* committed rows of time_slots
  batchOf,    \* history, one entry per id handed out: the first id of the recurring
              \* request that inserted it, 0 for a single creation
  now,        \* the clock (NOW(), moment())
  ticks,      \* clock advances so far
  calls,      \* calls started so far
  pc,         \* per handler: the await it is suspended at
  call,       \* per handler: operation and arguments
  slotRow,    \* per handler: the row its SELECT returned (local `slot`)
  todo,       \* per handler: INSERTs queued on the transaction's client
  txn,        \* per handler: uncommitted writes of its transaction
  held,       \* per handler: ids of the rows its transaction has locked
  result,     \* per handler: message the call ends with
  gen,        \* one run of #generateRecurringSlots: arguments, locals, position
  list,       \* the reading client: one getTimeSlots or getSlotById call on the
              \* pool at a time, and the responses it has had
  wt          \* one run of withTransaction around a callback: position, the
              \* statements sent on its client, the exception in flight

vars == <<slots, batchOf, now, ticks, calls, pc, call, slotRow, todo, txn, held, result, gen,
         list, wt>>

\* ------------------------------------------------------------- data shapes
Row(id, consultant_id, start, end) ==
  [id |-> id, consultant_id |-> consultant_id, customer_id |-> NULL,
   start_time |-> start, end_time |-> end, is_booked |-> FALSE,
   recurring_pattern_id |-> NULL]

NoRow == [id |-> 0, consultant_id |-> NULL, customer_id |-> NULL,
          start_time |-> 0, end_time |-> 0, is_booked |-> FALSE,
          recurring_pattern_id |-> NULL]

\* a call: for a creation, start_time and end_time are the instants the times of
\* the request were converted to, body holds the request as it was sent
NoBody == [start_time |-> 0, end_time |-> 0, zulu |-> TRUE, timezone |-> "UTC"]

NoCall == [op |-> "none", consultant_id |-> NULL, start_time |-> 0, end_time |-> 0,
           recurring |-> NoRecurring, slotId |-> 0, customer_id |-> NULL, http |-> FALSE,
           timezone |-> "UTC", warnings |-> <<>>, body |-> NoBody]

EmptyTxn == [ins |-> {}, upd |-> {}, del |-> {}, aborted |-> FALSE]

\* a run of #generateRecurringSlots about to start with these arguments
GenCall(startDate, endDate, recurring, timezone) ==
  [pc |-> "call", startDate |-> startDate, endDate |-> endDate, recurring |-> recurring,
   timezone |-> timezone, duration |-> 0, current |-> 0, until |-> 0, slots |-> <<>>]

NoGen == [GenCall(0, 0, NoRecurring, "UTC") EXCEPT !.pc = "idle"]

\* a JavaScript value of a request: undefined, a boolean, a number, a string
\* that reads as an integer (n), any other string (s)
Undefined == [t |-> "undefined", n |-> 0, s |-> ""]
Bool(b) == [t |-> "boolean", n |-> IF b THEN 1 ELSE 0, s |-> ""]
Num(n) == [t |-> "number", n |-> n, s |-> ""]
NumStr(n) == [t |-> "numstring", n |-> n, s |-> ""]
Str(s) == [t |-> "string", n |-> 0, s |-> s]
NaN == [t |-> "NaN", n |-> 0, s |-> ""]

\* the query object of getTimeSlots; consultant_id NULL and date -1 are absent
Query(consultant_id, include_booked, date, page, limit) ==
  [consultant_id |-> consultant_id, include_booked |-> include_booked, date |-> date,
   page |-> page, limit |-> limit]

NoQuery == Query(NULL, Undefined, 0 - 1, Undefined, Undefined)

NoPagination == [current_page |-> 0, total_pages |-> 0, total_items |-> 0, limit |-> 0]

\* the reading client at rest
NoList ==
  [pc |-> "idle", op |-> "none", query |-> NoQuery, slotId |-> 0, limit |-> 0,
   totalItems |-> 0, time_slots |-> <<>>, pagination |-> NoPagination, slot |-> NoRow,
   error |-> MsgNone, from |-> <<{}, <<>>>>, history |-> <<>>]

\* withTransaction not running. callback is what the callback will do (MsgOk:
\* return, else the message it throws), log the statements sent on the client
\* with their outcome, failure the first exception raised, err the exception
\* in flight, thrown the one the caller gets.
NoWt ==
  [pc |-> "idle", callback |-> MsgOk, client |-> FALSE, log |-> <<>>, failure |-> MsgNone,
   err |-> MsgNone, thrown |-> MsgNone, released |-> 0]

Ids(rows) == {r.id : r \in rows}

RowById(rows, id) == IF id \in Ids(rows) THEN CHOOSE r \in rows : r.id = id ELSE NoRow

\* ------------------------------------------------------------ the database
\* What a statement of handler p reads: the committed rows, with p's own
\* uncommitted writes applied (READ COMMITTED).
Visible(p) ==
  {r \in slots : r.id \notin txn[p].del /\ r.id \notin Ids(txn[p].upd)}
    \cup txn[p].upd \cup txn[p].ins

\* A row lock taken by another handler's open transaction.
LockedByOther(p, id) == \E q \in AllProcs : q # p /\ id \in held[q]

\* the overlap test with closed '[]' bounds
tsrangeOverlapClosed(a1, a2, b1, b2) == a1 <= b2 /\ b1 <= a2

\* tsrange(a1, a2) && tsrange(b1, b2) with the default '[)' bounds
tsrangeOverlap(a1, a2, b1, b2) == a1 < b2 /\ b1 < a2

\* ----------------------------------------------------------------- calendar
\* Month m counts from January 2025 (m = 0); 2025..2027 are not leap years.
MonthLen(m) ==
  LET k == m % 12
  IN  IF k = 1 THEN 28 ELSE IF k \in {3, 5, 8, 10} THEN 30 ELSE 31

RECURSIVE MonthStartDay(_)
MonthStartDay(m) == IF m = 0 THEN 0 ELSE MonthStartDay(m - 1) + MonthLen(m - 1)

MonthOfDay(day) ==
  CHOOSE m \in 0..MaxMonth : MonthStartDay(m) <= day /\ day < MonthStartDay(m + 1)

\* moment#add(1, 'month') on a UTC-mode moment: same time of day, same day of
\* month clamped to the length of the target month.
AddMonth(t) ==
  LET day == t \div MinutesPerDay
      tod == t % MinutesPerDay
      m   == MonthOfDay(day)
      dom == day - MonthStartDay(m) + 1
      nd  == IF dom > MonthLen(m + 1) THEN MonthLen(m + 1) ELSE dom
  IN  (MonthStartDay(m + 1) + nd - 1) * MinutesPerDay + tod

AddWeek(t) == t + MinutesPerWeek

\* -------------------------------------------------------- pure service code
\* the validation without the start.isBefore(now) test
validateNoPastCheck(start_time, end_time, clock) ==
  IF ~(end_time > start_time) THEN MsgEndBeforeStart
  ELSE IF end_time - start_time < MIN_DURATION_MINUTES
          \/ end_time - start_time > MAX_DURATION_MINUTES THEN MsgDuration
  ELSE MsgOk

\* the validation with the start.isBefore(now) test only
validatePastOnly(start_time, end_time, clock) ==
  IF start_time < clock THEN MsgPast ELSE MsgOk

\* #validateAndConvertTime with timezone 'UTC': the message it throws, or MsgOk.
validateAndConvertTime(start_time, end_time, clock) ==
  IF ~(end_time > start_time) THEN MsgEndBeforeStart
  ELSE IF start_time < clock THEN MsgPast
  ELSE IF end_time - start_time < MIN_DURATION_MINUTES
          \/ end_time - start_time > MAX_DURATION_MINUTES THEN MsgDuration
  ELSE MsgOk

\* ---------------------------------------------------------------- timezones
Zones == {"UTC", "America/New_York"}

\* America/New_York in 2025: daylight time from 2025-03-09T07:00Z to 2025-11-02T06:00Z
DSTStart == 67 * MinutesPerDay + 7 * 60
DSTEnd == 305 * MinutesPerDay + 6 * 60

\* moment#isDST of instant t read in the zone
isDST(zone, t) == zone = "America/New_York" /\ DSTStart <= t /\ t < DSTEnd

\* moment#utcOffset of instant t read in the zone, in minutes
utcOffset(zone, t) ==
  IF zone = "America/New_York" THEN (IF isDST(zone, t) THEN 0 - 240 ELSE 0 - 300)
  ELSE IF zone = "Asia/Kolkata" THEN 330
  ELSE 0

\* moment.tz(string, zone): a string with the 'Z' offset is that instant; an
\* offset-less one is a wall-clock reading in the zone (the earlier instant
\* of a repeated hour, moved forward through a skipped one)
momentTz(wall, zulu, zone) ==
  LET dst == wall + 240
      std == wall + 300
  IN  IF zulu THEN wall
      ELSE IF zone # "America/New_York" THEN wall - utcOffset(zone, wall)
      ELSE IF isDST(zone, dst) THEN dst
      ELSE std

MsgSpansDST == "Time slot spans DST transition"

\* #validateAndConvertTime: if (start.isDST() !== end.isDST()) warnings.push(...)
warningsOf(start, end, timezone) ==
  IF isDST(timezone, start) # isDST(timezone, end) THEN <<MsgSpansDST>> ELSE <<>>

\* moment#diff in whole hours
diffHours(a, b) == ((a - b) \div 60) * 60

\* moment(a).diff(moment(b)): the exact difference of the two instants
diff(a, b) == a - b

\* moment#isBefore in place of moment#isSameOrBefore
isBefore(a, b) == a < b

\* moment#isSameOrBefore
isSameOrBefore(a, b) == a <= b

\* current.add(1, 'week') / current.add(1, 'month'); any other frequency
\* leaves current where it is
addInterval(current, frequency) ==
  IF frequency = "weekly" THEN AddWeek(current)
  ELSE IF frequency = "monthly" THEN AddMonth(current)
  ELSE current

\* #generateRecurringSlots: the occurrences, in the order the loop pushes them
\* (defined for the frequencies that advance current).
RECURSIVE generateFrom(_, _, _, _)
generateFrom(current, duration, frequency, until) ==
  IF ~isSameOrBefore(current, until) THEN <<>>
  ELSE <<[start |-> current, end |-> current + duration]>> \o
       generateFrom(addInterval(current, frequency), duration, frequency, until)

generateRecurringSlots(startDate, endDate, recurring, timezone) ==
  generateFrom(startDate, diff(endDate, startDate), recurring.frequency,
               momentTz(recurring.until, recurring.zulu, timezone))

\* --------------------------------------------------------------- statements
\* CONSTRAINT check_times CHECK (end_time > start_time)
check_times(row) == row.end_time > row.start_time

\* uuid_generate_v4(): the id the next INSERT gets
nextId == Len(batchOf) + 1

\* the row stored with its times cut to the hour
insertRowHours(id, consultant_id, start, end) ==
  Row(id, consultant_id, (start \div 60) * 60, (end \div 60) * 60)

\* INSERT INTO time_slots (consultant_id, start_time, end_time) VALUES ($1, $2, $3)
\* RETURNING *: the row stored, the other columns at their defaults
insertRow(id, consultant_id, start, end) == Row(id, consultant_id, start, end)

\* the SELECT without AND NOT is_booked
checkOverlapAnyBooking(p, consultant_id, startTime, endTime) ==
  {r \in Visible(p) : /\ r.consultant_id = consultant_id
                      /\ tsrangeOverlap(r.start_time, r.end_time, startTime, endTime)}

\* #checkOverlap: the rows its SELECT returns
checkOverlap(p, consultant_id, startTime, endTime) ==
  {r \in Visible(p) : /\ r.consultant_id = consultant_id
                      /\ ~r.is_booked
                      /\ tsrangeOverlap(r.start_time, r.end_time, startTime, endTime)}

\* the SET clause without is_booked = true
reservedRowKeepsFlag(row, customerId) == [row EXCEPT !.customer_id = customerId]

\* the SET clause without customer_id = $1
reservedRowNoCustomer(row, customerId) == [row EXCEPT !.is_booked = TRUE]

\* a customers table without the reference from time_slots
noForeignKey(customerId) == FALSE

\* customer_id UUID REFERENCES customers(id): the value violates the reference
foreignKeyViolation(customerId) == customerId \notin Customers

\* an UPDATE that also moves the slot to the time of the reservation
reservedRowRescheduled(row, customerId) ==
  [row EXCEPT !.is_booked = TRUE, !.customer_id = customerId, !.start_time = now]

\* reserveTimeSlot: the SET clause of its UPDATE
reservedRow(row, customerId) ==
  [row EXCEPT !.is_booked = TRUE, !.customer_id = customerId]

\* the WHERE clause without id = $2
updateMatchesUnbooked(p, slotId) == {r \in Visible(p) : ~r.is_booked}

\* reserveTimeSlot: the rows the WHERE clause of its UPDATE matches
updateMatches(p, slotId) == {r \in Visible(p) : r.id = slotId /\ ~r.is_booked}

\* the WHERE clause without AND NOT is_booked
deleteMatchesAnyRow(p, slotId) == {r \in Visible(p) : r.id = slotId}

\* deleteTimeSlot: the rows the WHERE clause of its DELETE matches
deleteMatches(p, slotId) == {r \in Visible(p) : r.id = slotId /\ ~r.is_booked}

\* withTransaction: the table after COMMIT, and after ROLLBACK
Committed(p) == Visible(p)

\* a ROLLBACK that keeps the transaction's writes
RolledBackKeepsWrites(p) == Visible(p)

RolledBack(p) == slots

\* ------------------------------------------------------------ error responses
\* an error object: statusCode 0 and code "" stand for an absent property
Err(message, statusCode, code) ==
  [message |-> message, statusCode |-> statusCode, code |-> code]

\* new AppError(message, 400)
AppError(message) == Err(message, 400, "")

\* errors of the driver and the database that no code of the service raises
StorageErrors ==
  {Err("Database connection lost", 0, ""),
   Err("deadlock detected", 0, "40P01"),
   Err("invalid memory alloc request size 1073741824", 0, "XX000"),
   Err("invalid page in block 0 of relation base/16384/16397", 0, "XX001")}

\* the substrings handleDatabaseError looks for
Keywords == {"overlaps", "duration", "booked", "not found", "invalid", "format"}

\* err.message.includes(word), for the messages that occur
includes(message, word) ==
  \/ word = "overlaps" /\ message = MsgOverlap
  \/ word = "duration" /\ message = MsgDuration
  \/ word = "booked" /\ message = MsgBooked
  \/ word = "not found" /\ message \in {MsgNotFound, MsgCustomerNotFound}
  \/ word = "invalid" /\ message \in {"invalid memory alloc request size 1073741824",
                                        "invalid page in block 0 of relation base/16384/16397",
                                        "invalid input syntax for type uuid"}

\* the errorMap of handleDatabaseError, as a function of the error code
errorMap ==
  [code \in {"23505", "23503", "22P02"} |->
     IF code = "23505" THEN [statusCode |-> 409, message |-> "Resource already exists"]
     ELSE IF code = "23503" THEN [statusCode |-> 400, message |-> MsgForeignKey]
     ELSE [statusCode |-> 400, message |-> "Invalid input format"]]

\* ResponseHandler.handleDatabaseError
handleDatabaseError(err) ==
  IF err.statusCode # 0
  THEN [statusCode |-> err.statusCode, message |-> err.message]
  ELSE LET isValidationError == \E w \in Keywords : includes(err.message, w)
       IN  [statusCode |-> IF err.code \in DOMAIN errorMap THEN errorMap[err.code].statusCode
                           ELSE IF isValidationError THEN 400 ELSE 500,
            message |-> IF err.code \in DOMAIN errorMap THEN errorMap[err.code].message
                        ELSE err.message]

\* the error objects a failed call may have thrown, by the message it ended with
thrown(msg) ==
  IF msg = MsgStorage THEN StorageErrors
  ELSE IF msg = MsgForeignKey
  THEN {Err("insert or update on table \"time_slots\" violates foreign key constraint",
            0, "23503")}
  ELSE {AppError(msg)}

\* the responses the caller of handler p may get for its failed call: from
\* validateRequest for a validator's error, from the controller's catch otherwise
responses(p) ==
  IF result[p] = MsgCustomerNotFound
  THEN {[statusCode |-> 400, message |-> result[p]]}
  ELSE {handleDatabaseError(e) : e \in thrown(result[p])}

\* ------------------------------------------------------------------- Init
Idle ==
  /\ pc = [p \in AllProcs |-> "idle"]
  /\ call = [p \in AllProcs |-> NoCall]
  /\ slotRow = [p \in AllProcs |-> NoRow]
  /\ todo = [p \in AllProcs |-> <<>>]
  /\ txn = [p \in AllProcs |-> EmptyTxn]
  /\ held = [p \in AllProcs |-> {}]
  /\ result = [p \in AllProcs |-> MsgNone]
  /\ now = 0
  /\ ticks = 0
  /\ calls = 0
  /\ gen = NoGen
  /\ list = NoList
  /\ wt = NoWt

\* The store a weekly request of consultant1 (first occurrence [600, 660), until
\* a week later) leaves once customer1 has reserved its first occurrence.
SeriesStore ==
  {[Row(1, "consultant1", 600, 660) EXCEPT !.is_booked = TRUE, !.customer_id = "customer1"],
   Row(2, "consultant1", 600 + MinutesPerWeek, 660 + MinutesPerWeek)}

Init ==
  /\ Idle
  /\ \/ slots = {} /\ batchOf = <<>>
     \/ slots = SeriesStore /\ batchOf = <<1, 1>>

\* ------------------------------------------------------- createTimeSlot
\* The call up to its first await: pool.connect and BEGIN of withTransaction,
\* #validateAndConvertTime and, for a recurring request, #generateRecurringSlots
\* with every INSERT queued on the client by Promise.all.
createTimeSlot(p, consultant_id, start_time, end_time, zulu, recurring, timezone, http) ==
  LET tz == IF http THEN "UTC" ELSE timezone
      start == momentTz(start_time, zulu, tz)
      end == momentTz(end_time, zulu, tz)
      v == validateAndConvertTime(start, end, now)
      occ == IF v = MsgOk /\ recurring # NoRecurring
             THEN generateRecurringSlots(start, end, recurring, tz)
             ELSE <<>>
  IN  /\ pc[p] = "idle"
      /\ calls' = calls + 1
      /\ call' = [call EXCEPT ![p] =
                    [NoCall EXCEPT !.op = "create", !.consultant_id = consultant_id,
                                   !.start_time = start, !.end_time = end,
                                   !.recurring = recurring, !.http = http,
                                   !.timezone = tz,
                                   !.warnings = IF v = MsgOk
                                                THEN warningsOf(start, end, tz) ELSE <<>>,
                                   !.body = [start_time |-> start_time,
                                             end_time |-> end_time, zulu |-> zulu,
                                             timezone |-> timezone]]]
      /\ todo' = [todo EXCEPT ![p] = occ]
      /\ result' = [result EXCEPT ![p] = IF v = MsgOk THEN MsgNone ELSE v]
      /\ pc' = [pc EXCEPT ![p] =
                  IF v # MsgOk THEN "rollback"
                  ELSE IF recurring = NoRecurring THEN "check"
                  ELSE IF occ = <<>> THEN "commit"
                  ELSE "insert"]
      /\ UNCHANGED <<wt, gen, list, slots, batchOf, now, ticks, slotRow, txn, held>>

StartCreate(p) ==
  /\ calls < MaxCalls
  /\ \E c \in Consultants, i \in Intervals, r \in Recurrings :
       createTimeSlot(p, c, i[1], i[2], TRUE, r, "UTC", FALSE)

StartCreateSingle(p) ==
  /\ calls < MaxCalls
  /\ \E c \in Consultants, i \in Intervals :
       createTimeSlot(p, c, i[1], i[2], TRUE, NoRecurring, "UTC", FALSE)

\* await this.#checkOverlap(...) of a single creation
CheckOverlap(p) ==
  LET c == call[p]
      rows == checkOverlap(p, c.consultant_id, c.start_time, c.end_time)
  IN  /\ pc[p] = "check"
      /\ IF rows # {}
         THEN /\ result' = [result EXCEPT ![p] = MsgOverlap]
              /\ pc' = [pc EXCEPT ![p] = "rollback"]
              /\ todo' = todo
         ELSE /\ result' = result
              /\ pc' = [pc EXCEPT ![p] = "insert"]
              /\ todo' = [todo EXCEPT ![p] =
                            <<[start |-> c.start_time, end |-> c.end_time]>>]
      /\ UNCHANGED <<wt, gen, list, slots, batchOf, now, ticks, calls, call, slotRow, txn, held>>

\* the INSERT issued on the pool instead of the transaction's client: it
\* commits on its own
createSingleSlotOnPool(p, fails) ==
  LET c == call[p]
      o == Head(todo[p])
      rest == Tail(todo[p])
      batch == IF c.recurring = NoRecurring THEN 0
               ELSE IF Len(todo[p]) = Len(generateRecurringSlots(c.start_time, c.end_time,
                                                                  c.recurring, c.timezone))
               THEN nextId ELSE nextId - 1
  IN  /\ pc[p] = "insert"
      /\ todo[p] # <<>>
      /\ todo' = [todo EXCEPT ![p] = rest]
      /\ IF fails \/ ~check_times(insertRow(nextId, c.consultant_id, o.start, o.end))
         THEN /\ slots' = slots
              /\ txn' = [txn EXCEPT ![p] = [EmptyTxn EXCEPT !.aborted = TRUE]]
              /\ result' = [result EXCEPT ![p] =
                              IF result[p] = MsgNone THEN MsgStorage ELSE result[p]]
              /\ batchOf' = batchOf
              /\ slotRow' = slotRow
         ELSE /\ slotRow' = [slotRow EXCEPT ![p] =
                               insertRow(nextId, c.consultant_id, o.start, o.end)]
              /\ slots' = slots \cup {insertRow(nextId, c.consultant_id, o.start, o.end)}
              /\ txn' = txn
              /\ result' = result
              /\ batchOf' = Append(batchOf, batch)
      /\ pc' = [pc EXCEPT ![p] =
                  IF rest # <<>> THEN "insert"
                  ELSE IF txn'[p].aborted THEN "rollback" ELSE "commit"]
      /\ UNCHANGED <<wt, gen, list, now, ticks, calls, call, held>>

\* #createSingleSlot: the next queued INSERT runs. A statement of an aborted
\* transaction fails without effect; otherwise a row that violates check_times
\* fails it and the storage may fail it, which
\* aborts the transaction and rejects Promise.all while the later INSERTs stay
\* queued ahead of the ROLLBACK.
createSingleSlot(p, fails) ==
  LET c == call[p]
      o == Head(todo[p])
      rest == Tail(todo[p])
      batch == IF c.recurring = NoRecurring THEN 0
               ELSE IF txn[p].ins = {} THEN nextId
               ELSE batchOf[(CHOOSE r \in txn[p].ins : TRUE).id]
      aborted == \/ txn[p].aborted
                 \/ fails
                 \/ ~check_times(insertRow(nextId, c.consultant_id, o.start, o.end))
  IN  /\ pc[p] = "insert"
      /\ todo[p] # <<>>
      /\ txn[p].aborted => ~fails
      /\ todo' = [todo EXCEPT ![p] = rest]
      /\ IF aborted
         THEN /\ txn' = [txn EXCEPT ![p] = [EmptyTxn EXCEPT !.aborted = TRUE]]
              /\ result' = [result EXCEPT ![p] =
                              IF result[p] = MsgNone THEN MsgStorage ELSE result[p]]
              /\ batchOf' = batchOf
              /\ slotRow' = slotRow
         ELSE /\ slotRow' = [slotRow EXCEPT ![p] =
                               insertRow(nextId, c.consultant_id, o.start, o.end)]
              /\ txn' = [txn EXCEPT ![p].ins =
                           @ \cup {insertRow(nextId, c.consultant_id, o.start, o.end)}]
              /\ result' = result
              /\ batchOf' = Append(batchOf, batch)
      /\ pc' = [pc EXCEPT ![p] =
                  IF rest # <<>> THEN "insert"
                  ELSE IF aborted THEN "rollback" ELSE "commit"]
      /\ UNCHANGED <<wt, gen, list, slots, now, ticks, calls, call, held>>

Insert(p) == \E fails \in BOOLEAN : createSingleSlot(p, fails)

\* ------------------------------------------------------- withTransaction
\* await client.query('COMMIT'), then the finally block's release
Commit(p) ==
  /\ pc[p] = "commit"
  /\ slots' = Committed(p)
  /\ txn' = [txn EXCEPT ![p] = EmptyTxn]
  /\ held' = [held EXCEPT ![p] = {}]
  /\ result' = [result EXCEPT ![p] =
                  IF call[p].op = "delete" THEN MsgDeleted ELSE MsgOk]
  /\ pc' = [pc EXCEPT ![p] = "done"]
  /\ UNCHANGED <<wt, gen, list, batchOf, now, ticks, calls, call, slotRow, todo>>

\* await client.query('COMMIT') throws: nothing is committed, the transaction
\* keeps its writes and locks until the catch block's ROLLBACK
CommitFails(p) ==
  /\ pc[p] = "commit"
  /\ txn' = [txn EXCEPT ![p].aborted = TRUE]
  /\ result' = [result EXCEPT ![p] = MsgStorage]
  /\ pc' = [pc EXCEPT ![p] = "rollback"]
  /\ UNCHANGED <<wt, gen, list, slots, batchOf, now, ticks, calls, call, slotRow, todo, held>>

\* the catch block: await client.query('ROLLBACK'), rethrow, release
Rollback(p) ==
  /\ pc[p] = "rollback"
  /\ slots' = RolledBack(p)
  /\ txn' = [txn EXCEPT ![p] = EmptyTxn]
  /\ held' = [held EXCEPT ![p] = {}]
  /\ pc' = [pc EXCEPT ![p] = "done"]
  /\ UNCHANGED <<wt, gen, list, batchOf, now, ticks, calls, call, slotRow, todo, result>>

\* ------------------------------------------------------ reserveTimeSlot
\* A reservation request arrives: over HTTP it first meets the slotReservation
\* validators, a direct service call starts at withTransaction's BEGIN.
reserveTimeSlot(p, slotId, customerId, http) ==
  /\ pc[p] = "idle"
  /\ calls' = calls + 1
  /\ call' = [call EXCEPT ![p] =
                [NoCall EXCEPT !.op = "reserve", !.slotId = slotId,
                               !.customer_id = customerId, !.http = http]]
  /\ pc' = [pc EXCEPT ![p] = IF http THEN "precheck" ELSE "select"]
  /\ UNCHANGED <<wt, gen, list, slots, batchOf, now, ticks, slotRow, todo, txn, held, result>>

SlotIdArgs == (1..Len(batchOf)) \cup UnknownSlotIds

StartReserve(p) ==
  /\ calls < MaxCalls
  /\ \E id \in SlotIdArgs, c \in Customers \cup {UnknownCustomer}, http \in BOOLEAN :
       reserveTimeSlot(p, id, c, http)

\* one caller of the race: a reservation of slot 1 for an existing customer
RaceReserve(p) ==
  \E c \in Customers, http \in BOOLEAN : reserveTimeSlot(p, 1, c, http)

\* slotReservation: the validators' pool.query reads, outside any transaction
slotReservation(p) ==
  LET c == call[p]
      msg == IF c.slotId \notin Ids(slots) THEN MsgNotFound
             ELSE IF RowById(slots, c.slotId).is_booked THEN MsgUnavailable
             ELSE IF c.customer_id \notin Customers THEN MsgCustomerNotFound
             ELSE MsgOk
  IN  /\ pc[p] = "precheck"
      /\ c.op = "reserve"
      /\ result' = [result EXCEPT ![p] = IF msg = MsgOk THEN MsgNone ELSE msg]
      /\ pc' = [pc EXCEPT ![p] = IF msg = MsgOk THEN "select" ELSE "done"]
      /\ UNCHANGED <<wt, gen, list, slots, batchOf, now, ticks, calls, call, slotRow, todo, txn, held>>

\* SELECT * FROM time_slots WHERE id = $1 FOR UPDATE: waits while another
\* transaction holds the row's lock, then locks the row and returns its
\* committed version.
ReserveSelect(p) ==
  LET c == call[p]
      found == c.slotId \in Ids(Visible(p))
      row == RowById(Visible(p), c.slotId)
  IN  /\ pc[p] = "select"
      /\ c.op = "reserve"
      /\ ~(found /\ LockedByOther(p, c.slotId))
      /\ held' = [held EXCEPT ![p] = IF found THEN @ \cup {c.slotId} ELSE @]
      /\ slotRow' = [slotRow EXCEPT ![p] = row]
      /\ result' = [result EXCEPT ![p] =
                      IF ~found THEN MsgNotFound
                      ELSE IF row.is_booked THEN MsgUnavailable
                      ELSE MsgNone]
      /\ pc' = [pc EXCEPT ![p] =
                  IF ~found \/ row.is_booked THEN "rollback" ELSE "update"]
      /\ UNCHANGED <<wt, gen, list, slots, batchOf, now, ticks, calls, call, todo, txn>>

\* UPDATE time_slots SET ... WHERE id = $2 AND NOT is_booked RETURNING *
ReserveUpdate(p) ==
  LET c == call[p]
      rows == updateMatches(p, c.slotId)
      fk == rows # {} /\ foreignKeyViolation(c.customer_id)
  IN  /\ pc[p] = "update"
      /\ \A r \in rows : ~LockedByOther(p, r.id)
      /\ held' = [held EXCEPT ![p] = @ \cup Ids(rows)]
      /\ txn' = [txn EXCEPT ![p] =
                   IF fk THEN [EmptyTxn EXCEPT !.aborted = TRUE]
                   ELSE [@ EXCEPT !.upd = @ \cup {reservedRow(r, c.customer_id) : r \in rows}]]
      /\ result' = [result EXCEPT ![p] =
                      IF fk THEN MsgForeignKey
                      ELSE IF rows = {} THEN MsgUnavailable
                      ELSE MsgNone]
      /\ pc' = [pc EXCEPT ![p] = IF fk \/ rows = {} THEN "rollback" ELSE "commit"]
      /\ UNCHANGED <<wt, gen, list, slots, batchOf, now, ticks, calls, call, slotRow, todo>>

\* ------------------------------------------------------- deleteTimeSlot
\* A deletion request arrives: the controller first looks the slot up with
\* getSlotById, a direct service call starts at withTransaction's BEGIN.
deleteTimeSlot(p, slotId, http) ==
  /\ pc[p] = "idle"
  /\ calls' = calls + 1
  /\ call' = [call EXCEPT ![p] =
                [NoCall EXCEPT !.op = "delete", !.slotId = slotId, !.http = http]]
  /\ pc' = [pc EXCEPT ![p] = IF http THEN "precheck" ELSE "select"]
  /\ UNCHANGED <<wt, gen, list, slots, batchOf, now, ticks, slotRow, todo, txn, held, result>>

StartDelete(p) ==
  /\ calls < MaxCalls
  /\ \E id \in SlotIdArgs, http \in BOOLEAN : deleteTimeSlot(p, id, http)

\* the test without the is_booked branch
deleteCheckNotBooked(found, row) == IF ~found THEN MsgNotFound ELSE MsgOk

\* the test deleteTimeSlot applies to a row it has read
deleteCheck(found, row) ==
  IF ~found THEN MsgNotFound
  ELSE IF row.is_booked THEN MsgBooked
  ELSE MsgOk

\* TimeSlotController.deleteTimeSlot: getSlotById and its two checks
ControllerDeleteCheck(p) ==
  LET c == call[p]
      msg == deleteCheck(c.slotId \in Ids(slots), RowById(slots, c.slotId))
  IN  /\ pc[p] = "precheck"
      /\ c.op = "delete"
      /\ result' = [result EXCEPT ![p] = IF msg = MsgOk THEN MsgNone ELSE msg]
      /\ pc' = [pc EXCEPT ![p] = IF msg = MsgOk THEN "select" ELSE "done"]
      /\ UNCHANGED <<wt, gen, list, slots, batchOf, now, ticks, calls, call, slotRow, todo, txn, held>>

\* SELECT * FROM time_slots WHERE id = $1 (no lock) and the two checks
DeleteSelect(p) ==
  LET c == call[p]
      found == c.slotId \in Ids(Visible(p))
      row == RowById(Visible(p), c.slotId)
      msg == deleteCheck(found, row)
  IN  /\ pc[p] = "select"
      /\ c.op = "delete"
      /\ slotRow' = [slotRow EXCEPT ![p] = row]
      /\ result' = [result EXCEPT ![p] = IF msg = MsgOk THEN MsgNone ELSE msg]
      /\ pc' = [pc EXCEPT ![p] = IF msg = MsgOk THEN "delete" ELSE "rollback"]
      /\ UNCHANGED <<wt, gen, list, slots, batchOf, now, ticks, calls, call, todo, txn, held>>

\* DELETE FROM time_slots WHERE id = $1 AND NOT is_booked: waits for the lock
\* of a row it matches, then deletes what still matches.
DeleteRow(p) ==
  LET c == call[p]
      rows == deleteMatches(p, c.slotId)
  IN  /\ pc[p] = "delete"
      /\ \A r \in rows : ~LockedByOther(p, r.id)
      /\ held' = [held EXCEPT ![p] = @ \cup Ids(rows)]
      /\ txn' = [txn EXCEPT ![p].del = @ \cup Ids(rows)]
      /\ pc' = [pc EXCEPT ![p] = "commit"]
      /\ UNCHANGED <<wt, gen, list, slots, batchOf, now, ticks, calls, call, slotRow, todo, result>>

\* ------------------------------------------------------------- the rest
\* the caller has its response: the handler is free for the next request
Return(p) ==
  /\ pc[p] = "done"
  /\ pc' = [pc EXCEPT ![p] = "idle"]
  /\ call' = [call EXCEPT ![p] = NoCall]
  /\ slotRow' = [slotRow EXCEPT ![p] = NoRow]
  /\ result' = [result EXCEPT ![p] = MsgNone]
  /\ UNCHANGED <<wt, gen, list, slots, batchOf, now, ticks, calls, todo, txn, held>>

\* time passes
Tick ==
  /\ ticks < MaxTicks
  /\ ticks' = ticks + 1
  /\ \E d \in TickSteps : now' = now + d
  /\ UNCHANGED <<wt, gen, list, slots, batchOf, calls, pc, call, slotRow, todo, txn, held, result>>

\* what a handler does once its call has started
Step(p) ==
  \/ CheckOverlap(p) \/ Insert(p)
  \/ slotReservation(p) \/ ReserveSelect(p) \/ ReserveUpdate(p)
  \/ ControllerDeleteCheck(p) \/ DeleteSelect(p) \/ DeleteRow(p)
  \/ Commit(p) \/ CommitFails(p) \/ Rollback(p) \/ Return(p)

\* Concurrent handlers serving create, reserve and delete requests.
Next ==
  \/ \E p \in Procs : StartCreate(p) \/ StartReserve(p) \/ StartDelete(p) \/ Step(p)
  \/ Tick

Spec == Init /\ [][Next]_vars

\* One handler: every call runs to its end before the next begins.
NextSeq ==
  \/ StartCreate(1) \/ StartReserve(1) \/ StartDelete(1) \/ Step(1)
  \/ Tick

SpecSeq == Init /\ [][NextSeq]_vars

\* Concurrent handlers, creation requests without a recurrence rule.
NextSingle ==
  \/ \E p \in Procs : StartCreateSingle(p) \/ StartReserve(p) \/ StartDelete(p) \/ Step(p)
  \/ Tick

SpecSingle == Init /\ [][NextSingle]_vars

\* The reservation race: one unbooked slot, NumRacers concurrent reservations.
InitRace ==
  /\ Idle
  /\ slots = {Row(1, "consultant1", 600, 660)}
  /\ batchOf = <<0>>

NextRace ==
  \E p \in Racers :
    \/ RaceReserve(p) \/ slotReservation(p) \/ ReserveSelect(p) \/ ReserveUpdate(p)
    \/ Commit(p) \/ Rollback(p)

SpecRace == InitRace /\ [][NextRace]_vars

\* creation requests of one handler over a wider range of times and rules
CreateIntervals == {<<600, 660>>, <<630, 690>>, <<600, 629>>, <<600, 630>>, <<600, 1080>>,
                    <<600, 1081>>, <<600, 600>>, <<660, 600>>}
CreateRecurrings == Recurrings \cup {Rule("weekly", 599, TRUE), Rule("weekly", 600, TRUE)}

StartCreateAny(p) ==
  /\ calls < MaxCalls
  /\ \E c \in Consultants, i \in CreateIntervals, r \in CreateRecurrings :
       createTimeSlot(p, c, i[1], i[2], TRUE, r, "UTC", FALSE)

NextCreate ==
  \/ StartCreateAny(1) \/ CheckOverlap(1) \/ Insert(1)
  \/ Commit(1) \/ CommitFails(1) \/ Rollback(1) \/ Return(1)
  \/ Tick

SpecCreate == Init /\ [][NextCreate]_vars

\* ------------------------------------------- #generateRecurringSlots, stepwise
\* arguments the function is run with
GenStarts == {600, 30 * MinutesPerDay + 600, 67 * MinutesPerDay + 360}
GenDurations == {60, 90, 120}
GenFrequencies == {"weekly", "monthly", "daily"}
GenUntilOffsets == {0 - 1, 0, MinutesPerWeek - 1, MinutesPerWeek, 2 * MinutesPerWeek - 360,
                    2 * MinutesPerWeek, 62 * MinutesPerDay}

GenCalls ==
  {GenCall(s, s + d, Rule(f, s + u, z), tz) :
     s \in GenStarts, d \in GenDurations, f \in GenFrequencies,
     u \in GenUntilOffsets, z \in BOOLEAN, tz \in Zones}

\* const slots = []; duration; current = moment(startDate); until = moment.tz(...)
GenerateEnter ==
  /\ gen.pc = "call"
  /\ gen' = [gen EXCEPT !.pc = "loop",
                         !.duration = diff(gen.endDate, gen.startDate),
                         !.current = gen.startDate,
                         !.until = momentTz(gen.recurring.until, gen.recurring.zulu,
                                            gen.timezone),
                         !.slots = <<>>]
  /\ UNCHANGED <<wt, list, slots, batchOf, now, ticks, calls, pc, call, slotRow, todo, txn, held,
                 result>>

\* one pass of the while loop: push the occurrence, add the interval
GenerateLoop ==
  /\ gen.pc = "loop"
  /\ isSameOrBefore(gen.current, gen.until)
  /\ Len(gen.slots) < MaxOccurrences
  /\ gen' = [gen EXCEPT !.slots = Append(@, [start |-> gen.current,
                                             end |-> gen.current + gen.duration]),
                         !.current = addInterval(@, gen.recurring.frequency)]
  /\ UNCHANGED <<wt, list, slots, batchOf, now, ticks, calls, pc, call, slotRow, todo, txn, held,
                 result>>

\* the loop test fails: return slots
GenerateReturn ==
  /\ gen.pc = "loop"
  /\ ~isSameOrBefore(gen.current, gen.until)
  /\ gen' = [gen EXCEPT !.pc = "returned"]
  /\ UNCHANGED <<wt, list, slots, batchOf, now, ticks, calls, pc, call, slotRow, todo, txn, held,
                 result>>

InitExpand ==
  /\ pc = [p \in AllProcs |-> "idle"]
  /\ call = [p \in AllProcs |-> NoCall]
  /\ slotRow = [p \in AllProcs |-> NoRow]
  /\ todo = [p \in AllProcs |-> <<>>]
  /\ txn = [p \in AllProcs |-> EmptyTxn]
  /\ held = [p \in AllProcs |-> {}]
  /\ result = [p \in AllProcs |-> MsgNone]
  /\ now = 0 /\ ticks = 0 /\ calls = 0
  /\ slots = {} /\ batchOf = <<>>
  /\ gen \in GenCalls
  /\ list = NoList
  /\ wt = NoWt

NextExpand == GenerateEnter \/ GenerateLoop \/ GenerateReturn

\* #generateRecurringSlots run on every argument tuple of GenCalls
SpecExpand == InitExpand /\ [][NextExpand]_vars

\* ------------------------------------------------- getTimeSlots, getSlotById
DEFAULT_LIMIT == 20
MAX_LIMIT == 100

\* JavaScript truthiness
truthy(v) ==
  \/ v.t = "boolean" /\ v.n = 1
  \/ v.t = "number" /\ v.n # 0
  \/ v.t = "numstring"
  \/ v.t = "string" /\ v.s # ""

\* parseInt(v)
parseInt(v) == IF v.t \in {"number", "numstring"} THEN Num(v.n) ELSE NaN

\* a || b
Or(a, b) == IF truthy(a) THEN a ELSE b

\* a destructuring default: `name = d` takes d for undefined only
Default(v, d) == IF v.t = "undefined" THEN d ELSE v

\* Math.min
Min(a, b) == IF a < b THEN a ELSE b

\* Math.ceil(a / b) for b # 0
Ceil(a, b) == IF b > 0 THEN (a + b - 1) \div b ELSE 0 - ((a + (0 - b) - 1) \div (0 - b))

\* let limit = parseInt(query.limit) || DEFAULT_LIMIT, not capped
limitUncapped(query) == Or(parseInt(query.limit), Num(DEFAULT_LIMIT)).n

\* let limit = parseInt(query.limit) || DEFAULT_LIMIT; limit = Math.min(limit, MAX_LIMIT)
limitOf(query) == Min(Or(parseInt(query.limit), Num(DEFAULT_LIMIT)).n, MAX_LIMIT)

\* parseInt(page) || 1, with the default page = 1
pageOf(query) == Or(parseInt(Default(query.page, Num(1))), Num(1)).n

\* OFFSET page * limit
offsetOfNextPage(page, limit) == page * limit

\* const offset = ((parseInt(page) || 1) - 1) * limit
offsetOf(page, limit) == (page - 1) * limit

\* if (!include_booked), with the default include_booked = false
excludeBooked(query) == ~truthy(Default(query.include_booked, Bool(FALSE)))

\* the filter with include_booked compared to the boolean true
excludeBookedUnlessTrue(query) == query.include_booked # Bool(TRUE)

\* DATE(ts.start_time)
DATE(t) == t \div MinutesPerDay

\* baseQuery: the rows its WHERE clause selects at clock reading `clock`
baseQuery(rows, query, clock) ==
  {r \in rows :
     /\ r.start_time >= clock
     /\ excludeBooked(query) => ~r.is_booked
     /\ query.consultant_id # NULL => r.consultant_id = query.consultant_id
     /\ query.date >= 0 => DATE(r.start_time) = query.date}

\* every order of the rows
RECURSIVE anyOrder(_)
anyOrder(rows) ==
  IF rows = {} THEN {<<>>}
  ELSE UNION {{<<r>> \o rest : rest \in anyOrder(rows \ {r})} : r \in rows}

\* ORDER BY ts.start_time: every order of the rows with start_time ascending;
\* rows of equal start_time come in any order. The rows are split at a middle
\* start_time, each part is ordered, the earlier part comes first.
RECURSIVE orderBy(_)
orderBy(rows) ==
  LET starts == {r.start_time : r \in rows}
  IN  IF Cardinality(starts) <= 1 THEN anyOrder(rows)
      ELSE LET pivot == CHOOSE s \in starts :
                          Cardinality({t \in starts : t < s}) = Cardinality(starts) \div 2
               earlier == {r \in rows : r.start_time < pivot}
           IN  {a \o b : a \in orderBy(earlier), b \in orderBy(rows \ earlier)}

\* LIMIT limit OFFSET offset of an ordered result
limitOffset(ordered, limit, offset) ==
  SubSeq(ordered, offset + 1, Min(offset + limit, Len(ordered)))

\* requests of the reading client
ListQueries ==
  {Query(c, b, d, pg, l) :
     c \in {NULL, "consultant1"},
     b \in {Undefined, Bool(FALSE), Bool(TRUE), Str("false")},
     d \in {0 - 1, 0},
     pg \in {Undefined, Num(2)},
     l \in {Undefined, Num(1), Num(2)}}

\* getTimeSlots up to its first await: limit is fixed, the count query is sent.
\* A behaviour repeats the query of its first listing.
getTimeSlots(query) ==
  /\ list.pc = "idle"
  /\ calls < MaxCalls
  /\ list.history # <<>> => query = list.history[1].query
  /\ calls' = calls + 1
  /\ list' = [list EXCEPT !.pc = "count", !.op = "getTimeSlots", !.query = query,
                          !.limit = limitOf(query), !.from = <<slots, batchOf>>]
  /\ UNCHANGED <<wt, gen, slots, batchOf, now, ticks, pc, call, slotRow, todo, txn, held, result>>

StartList == \E q \in ListQueries : getTimeSlots(q)

\* await pool.query(SELECT COUNT(*) ...): committed rows, NOW() of the statement
ListCount ==
  /\ list.pc = "count"
  /\ list' = [list EXCEPT !.pc = "page",
                          !.totalItems = Cardinality(baseQuery(slots, list.query, now))]
  /\ UNCHANGED <<wt, gen, slots, batchOf, now, ticks, calls, pc, call, slotRow, todo, txn, held,
                 result>>

\* await pool.query(finalQuery): a negative LIMIT or OFFSET is an error of the
\* statement; otherwise the page and its metadata are the call's result
ListPage ==
  LET limit == list.limit
      page == pageOf(list.query)
      offset == offsetOf(page, limit)
  IN  /\ list.pc = "page"
      /\ IF limit < 0 \/ offset < 0
         THEN list' = [list EXCEPT !.pc = "failed"]
         ELSE \E ordered \in orderBy(baseQuery(slots, list.query, now)) :
                list' = [list EXCEPT
                           !.pc = "done",
                           !.time_slots = limitOffset(ordered, limit, offset),
                           !.pagination = [current_page |-> page,
                                           total_pages |-> Ceil(list.totalItems, limit),
                                           total_items |-> list.totalItems,
                                           limit |-> limit]]
      /\ UNCHANGED <<wt, gen, slots, batchOf, now, ticks, calls, pc, call, slotRow, todo, txn, held,
                     result>>

\* the parameter compared with the UUID column id: a string that is no UUID
\* makes the statement fail with code 22P02
isUUID(slotId) == slotId \notin MalformedSlotIds

\* a catch block that rethrows the statement's error as it is
getSlotByIdRethrows(slotId) == IF isUUID(slotId) THEN MsgNone ELSE MsgInvalidSyntax

\* getSlotById: what its catch block throws, MsgNone when the statement succeeds
getSlotByIdError(slotId) == IF isUUID(slotId) THEN MsgNone ELSE MsgInvalidId

\* getSlotById: SELECT * FROM time_slots WHERE id = $1 on the pool; the slot
\* returned is the first row, undefined (NoRow) when there is none
getSlotById(slotId) ==
  /\ list.pc = "idle"
  /\ calls < MaxCalls
  /\ calls' = calls + 1
  /\ list' = IF getSlotByIdError(slotId) = MsgNone
             THEN [list EXCEPT !.pc = "done", !.op = "getSlotById", !.slotId = slotId,
                               !.slot = RowById(slots, slotId)]
             ELSE [list EXCEPT !.pc = "failed", !.op = "getSlotById", !.slotId = slotId,
                               !.error = getSlotByIdError(slotId)]
  /\ UNCHANGED <<wt, gen, slots, batchOf, now, ticks, pc, call, slotRow, todo, txn, held, result>>

GetSlot == \E id \in SlotIdArgs \cup MalformedSlotIds : getSlotById(id)

\* the caller has the response; a listing's response is kept for comparison
ListReturn ==
  /\ list.pc \in {"done", "failed"}
  /\ list' = [NoList EXCEPT
                !.history =
                  IF list.op = "getTimeSlots" /\ list.pc = "done"
                  THEN Append(list.history,
                              [query |-> list.query, from |-> list.from,
                               to |-> <<slots, batchOf>>,
                               time_slots |-> list.time_slots,
                               pagination |-> list.pagination])
                  ELSE list.history]
  /\ UNCHANGED <<wt, gen, slots, batchOf, now, ticks, calls, pc, call, slotRow, todo, txn, held,
                 result>>

\* stores the listings are run on: rows of equal start_time, a booked row,
\* rows of two consultants and of two days
ListStores ==
  {{},
   SeriesStore,
   {Row(1, "consultant1", 600, 660), Row(2, "consultant2", 600, 660),
    Row(3, "consultant1", 660, 720),
    [Row(4, "consultant2", 630, 690) EXCEPT !.is_booked = TRUE, !.customer_id = "customer1"],
    Row(5, "consultant1", 600 + MinutesPerDay, 660 + MinutesPerDay)}}

InitList ==
  /\ Idle
  /\ slots \in ListStores
  /\ batchOf = [i \in 1..Cardinality(slots) |-> IF slots = SeriesStore THEN 1 ELSE 0]

NextList == StartList \/ ListCount \/ ListPage \/ ListReturn \/ Tick

\* The reading client listing a fixed store while time passes.
SpecList == InitList /\ [][NextList]_vars

\* the listing of every slot yet to start, booked ones included
EverySlot == Query(NULL, Bool(TRUE), 0 - 1, Undefined, Undefined)

\* One handler creating, reserving and deleting while the reading client
\* fetches slots and lists them.
NextStore ==
  \/ StartCreateSingle(1) \/ StartReserve(1) \/ StartDelete(1) \/ Step(1)
  \/ GetSlot \/ getTimeSlots(EverySlot) \/ ListCount \/ ListPage \/ ListReturn
  \/ Tick

SpecStore == Init /\ [][NextStore]_vars

\* a store of more rows than a page may hold, all unbooked and yet to start
BigStoreSize == MAX_LIMIT + 1
BigStore ==
  {Row(i, IF i % 2 = 0 THEN "consultant2" ELSE "consultant1", 540 + 60 * i, 600 + 60 * i) :
     i \in 1..BigStoreSize}

PageQueries ==
  {Query(c, Undefined, 0 - 1, pg, l) :
     c \in {NULL, "consultant1"},
     pg \in {Undefined, Num(1), Num(2), NumStr(3), Num(0), Str("x")},
     l \in {Undefined, Str("abc"), Str(""), Num(0), Num(1), Num(MAX_LIMIT - 1),
            Num(MAX_LIMIT), Num(MAX_LIMIT + 1), NumStr(1000), Num(0 - 1)}}

StartPage == \E q \in PageQueries : getTimeSlots(q)

InitPage ==
  /\ Idle
  /\ slots = BigStore
  /\ batchOf = [i \in 1..BigStoreSize |-> 0]

NextPage == StartPage \/ ListCount \/ ListPage \/ ListReturn \/ Tick

\* getTimeSlots on a store larger than the largest page
SpecPage == InitPage /\ [][NextPage]_vars

\* ------------------------------------------- createTimeSlot with a timezone
CreateZones == Zones \cup {"Asia/Kolkata"}

\* wall-clock readings of start and end: 10:00-11:00 on 2025-01-01; 01:30-03:30
\* and 06:30-07:30 on 2025-03-09, 00:30-02:30 on 2025-11-02 (the days New York
\* changes its offset); 08:00-09:00 on 2025-03-26
ZonedIntervals ==
  {<<600, 660>>,
   <<67 * MinutesPerDay + 90, 67 * MinutesPerDay + 210>>,
   <<67 * MinutesPerDay + 390, 67 * MinutesPerDay + 450>>,
   <<305 * MinutesPerDay + 30, 305 * MinutesPerDay + 150>>,
   <<84 * MinutesPerDay + 480, 84 * MinutesPerDay + 540>>}

\* a creation request with a timezone field, sent to the create endpoint (the
\* controller calls the service with four arguments, so that timezone takes
\* its default) or made on the service directly
StartCreateZoned(p) ==
  /\ calls < MaxCalls
  /\ \E i \in ZonedIntervals, zulu \in BOOLEAN, tz \in CreateZones, http \in BOOLEAN,
        weekly \in BOOLEAN :
       createTimeSlot(p, "consultant1", i[1], i[2], zulu,
                      IF weekly THEN Rule("weekly", i[1] + MinutesPerWeek, zulu)
                      ELSE NoRecurring,
                      tz, http)

\* the warnings the caller of a finished creation has: the service returns
\* { data, warnings }, the controller answers with result.data only
responseWarnings(p) == IF call[p].http THEN <<>> ELSE call[p].warnings

NextZone ==
  \/ StartCreateZoned(1) \/ CheckOverlap(1) \/ Insert(1)
  \/ Commit(1) \/ CommitFails(1) \/ Rollback(1) \/ Return(1)
  \/ Tick

\* One handler serving creation requests that carry a timezone.
SpecZone == Init /\ [][NextZone]_vars

\* ================================================================= claims
\* half-open intervals [s1, e1) and [s2, e2) share an instant
Intersects(s1, e1, s2, e2) == \E t \in {s1, s2} : s1 <= t /\ t < e1 /\ s2 <= t /\ t < e2

Succeeded(P) == {p \in P : result[p] = MsgOk}

\* C1: once every caller of the reservation race has its answer, exactly one
\* has succeeded, every other one has failed with 'Time slot is not available',
\* and the stored slot is booked for the winner's customer; at no time have
\* two callers succeeded.
C1_ExactlyOneWinner ==
  /\ Cardinality(Succeeded(Racers)) <= 1
  /\ (\A p \in Racers : pc[p] = "done") =>
       \E w \in Racers :
         /\ result[w] = MsgOk
         /\ \A q \in Racers \ {w} : result[q] = MsgUnavailable
         /\ \E r \in slots : /\ r.id = 1
                             /\ r.is_booked
                             /\ r.customer_id = call[w].customer_id

\* the race is over, and a caller for another customer lost it inside its
\* transaction while one lost it at the validators
C1_Witness ==
  /\ \A p \in Racers : pc[p] = "done"
  /\ \E w, l, m \in Racers :
       /\ result[w] = MsgOk
       /\ result[l] = MsgUnavailable /\ ~call[l].http
       /\ call[l].customer_id # call[w].customer_id
       /\ result[m] = MsgUnavailable /\ call[m].http

SameConsultantOverlap(a, b) ==
  /\ a.id # b.id
  /\ a.consultant_id = b.consultant_id
  /\ Intersects(a.start_time, a.end_time, b.start_time, b.end_time)

\* C2: under every interleaving of concurrent createTimeSlot calls, no two
\* stored unbooked slots of one consultant have intersecting [start, end)
\* intervals after any committed transaction.
C2_NoUnbookedOverlap ==
  \A a, b \in slots : ~a.is_booked /\ ~b.is_booked => ~SameConsultantOverlap(a, b)

\* C3: no two stored slots of one consultant, booked or unbooked, have
\* intersecting [start, end) intervals.
C3_NoOverlapAtAll == \A a, b \in slots : ~SameConsultantOverlap(a, b)

ValidationMsgs == {MsgEndBeforeStart, MsgPast, MsgDuration}

\* an unbooked stored slot of the consultant intersects [start, end)
Conflict(consultant_id, start, end) ==
  \E a \in slots : /\ a.consultant_id = consultant_id
                   /\ ~a.is_booked
                   /\ Intersects(a.start_time, a.end_time, start, end)

\* C4: with calls running one after another, a single creation of a valid
\* interval B (the storage not failing) ends with success exactly when no
\* stored unbooked slot of its consultant intersects B as a half-open
\* interval, and then stores exactly B; otherwise it ends with 'Time slot
\* overlaps with existing slot' and the stored slots are unchanged.
C4_SequentialCreate ==
  [][\A p \in Procs :
       (/\ call[p].op = "create" /\ call[p].recurring = NoRecurring
        /\ pc[p] \in {"commit", "rollback"} /\ pc'[p] = "done"
        /\ result'[p] \notin ValidationMsgs \cup {MsgStorage})
       => LET c == call[p]
              conflict == Conflict(c.consultant_id, c.start_time, c.end_time)
          IN  /\ result'[p] = (IF conflict THEN MsgOverlap ELSE MsgOk)
              /\ conflict => slots' = slots
              /\ ~conflict =>
                   \E id \in (1..Len(batchOf)) \ Ids(slots) :
                     slots' = slots \cup {Row(id, c.consultant_id, c.start_time, c.end_time)}
    ]_vars

\* a single creation has succeeded for an interval that starts where a stored
\* unbooked slot of the same consultant ends
C4_Witness ==
  \E p \in Procs :
    /\ call[p].op = "create" /\ call[p].recurring = NoRecurring
    /\ pc[p] = "done" /\ result[p] = MsgOk
    /\ \E a, b \in slots :
         /\ a.consultant_id = call[p].consultant_id /\ ~a.is_booked
         /\ a.end_time = call[p].start_time
         /\ b.consultant_id = call[p].consultant_id /\ ~b.is_booked
         /\ b.start_time = call[p].start_time /\ b.end_time = call[p].end_time

\* C5: a stored booked slot is still stored, booked and held by the same
\* customer after every step of every handler.
C5_BookedIsTerminal == [][\A r \in slots : r.is_booked => r \in slots']_vars

\* a deletion whose SELECT saw the slot unbooked has finished after a
\* concurrent reservation committed: the slot is stored and booked
C5_Witness ==
  \E p \in Procs :
    /\ call[p].op = "delete" /\ pc[p] = "done" /\ result[p] = MsgDeleted
    /\ \E r \in slots : r.id = call[p].slotId /\ r.is_booked

C7_DeleteErrors ==
  [][\A p \in Procs :
       (call[p].op = "delete" /\ pc'[p] # pc[p]) =>
         LET id == call[p].slotId
             found == id \in Ids(slots)
             booked == found /\ RowById(slots, id).is_booked
         IN  /\ pc[p] \in {"precheck", "select"} =>
                  /\ ~found => result'[p] = MsgNotFound
                  /\ booked => result'[p] = MsgBooked
                  /\ (found /\ ~booked) => result'[p] \notin {MsgNotFound, MsgBooked}
             /\ result'[p] \in {MsgNotFound, MsgBooked} => slots' = slots
    ]_vars

\* one deletion has failed on a booked slot and one on an unknown id, and the
\* store is what it was
C7_Witness ==
  /\ slots = SeriesStore
  /\ \E p, q \in Procs :
       /\ call[p].op = "delete" /\ pc[p] = "done" /\ result[p] = MsgBooked
       /\ call[q].op = "delete" /\ pc[q] = "done" /\ result[q] = MsgNotFound

\* C8: the commit of a deletion aimed at an unbooked occurrence of a recurring
\* series removes every unbooked occurrence of the series with start >= now
\* and leaves every other stored slot as it was.
C8_DeleteRemovesSeries ==
  [][\A p \in Procs :
       (call[p].op = "delete" /\ pc[p] = "commit" /\ pc'[p] = "done") =>
         LET id == call[p].slotId
             b == IF id \in 1..Len(batchOf) THEN batchOf[id] ELSE 0
         IN  (id \in Ids(slots) /\ ~RowById(slots, id).is_booked /\ b # 0) =>
               \A r \in slots :
                 IF batchOf[r.id] = b /\ ~r.is_booked /\ r.start_time >= now
                 THEN r \notin slots'
                 ELSE r \in slots'
    ]_vars

\* C9: a recurring creation that passed validation and has an occurrence
\* intersecting a stored unbooked slot of its consultant ends with 'Time slot
\* overlaps with existing slot' and stores nothing.
C9_RecurringOverlapRejected ==
  [][\A p \in Procs :
       (/\ call[p].op = "create" /\ call[p].recurring # NoRecurring
        /\ pc[p] \in {"commit", "rollback"} /\ pc'[p] = "done"
        /\ result'[p] \notin ValidationMsgs \cup {MsgStorage})
       => LET c == call[p]
              occ == generateRecurringSlots(c.start_time, c.end_time, c.recurring, "UTC")
          IN  (\E i \in 1..Len(occ) : Conflict(c.consultant_id, occ[i].start, occ[i].end))
                => result'[p] = MsgOverlap /\ slots' = slots
    ]_vars

\* C10: a step of a recurring creation adds either nothing to the stored
\* slots or, at its COMMIT, one row per generated occurrence; it removes
\* nothing, and a call that ends in failure has added nothing.
C10_AllOrNothing ==
  [][\A p \in Procs :
       (call[p].op = "create" /\ call[p].recurring # NoRecurring /\ pc'[p] # pc[p]) =>
         LET c == call[p]
             occ == generateRecurringSlots(c.start_time, c.end_time, c.recurring, "UTC")
             added == slots' \ slots
         IN  /\ slots \subseteq slots'
             /\ added # {} =>
                  /\ pc[p] = "commit" /\ result'[p] = MsgOk
                  /\ Cardinality(added) = Len(occ)
                  /\ \A i \in 1..Len(occ) :
                       \E r \in added : /\ r.consultant_id = c.consultant_id
                                        /\ r.start_time = occ[i].start
                                        /\ r.end_time = occ[i].end
                                        /\ ~r.is_booked
             /\ (pc'[p] = "done" /\ result'[p] = MsgOk) => Cardinality(added) = Len(occ)
             /\ (pc'[p] = "done" /\ result'[p] # MsgOk) => added = {}
    ]_vars

\* the only call so far, a recurring creation, has failed in the storage after
\* an earlier INSERT of its batch had been given an id, and that id is not stored
C10_Witness ==
  /\ calls = 1
  /\ \E p \in Procs :
       /\ call[p].op = "create" /\ call[p].recurring # NoRecurring
       /\ pc[p] = "done" /\ result[p] = MsgStorage
       /\ \E i \in 1..Len(batchOf) : batchOf[i] = i /\ i \notin Ids(slots)

\* C11: a weekly expansion returns, in ascending order, exactly the
\* occurrences starting at firstStart + 7k days, k = 0, 1, 2, ..., with
\* start <= until (an occurrence starting exactly at until included), and
\* they are the occurrences a weekly creation request queues.
C11_WeeklyExpansion ==
  (gen.pc = "returned" /\ gen.recurring.frequency = "weekly") =>
    LET ks == {k \in 0..MaxOccurrences :
                 gen.startDate + k * 7 * MinutesPerDay <= gen.until}
        n == Cardinality(ks)
    IN  /\ Len(gen.slots) = n
        /\ \A i \in 1..n : /\ (i - 1) \in ks
                            /\ gen.slots[i].start = gen.startDate + (i - 1) * 7 * MinutesPerDay
        /\ gen.slots = generateRecurringSlots(gen.startDate, gen.endDate, gen.recurring,
                                              gen.timezone)

\* a weekly expansion has returned three occurrences, the last one starting
\* exactly at until
C11_Witness ==
  /\ gen.pc = "returned" /\ gen.recurring.frequency = "weekly"
  /\ Len(gen.slots) = 3
  /\ gen.slots[3].start = gen.until

\* C12: the weekly expansion from 2025-03-09T06:00Z with until the calendar
\* date 2025-03-23 read in America/New_York returns exactly three
\* occurrences, starting on March 9, 16 and 23.
C12_DstWeeklyThree ==
  (/\ gen.pc = "returned"
   /\ gen.startDate = 67 * MinutesPerDay + 360
   /\ gen.recurring = Rule("weekly", 81 * MinutesPerDay, FALSE)
   /\ gen.timezone = "America/New_York")
  => /\ Len(gen.slots) = 3
     /\ \A i \in 1..3 : gen.slots[i].start = (67 + 7 * (i - 1)) * MinutesPerDay + 360

\* C13: every occurrence of one expansion, weekly or monthly, lasts exactly
\* firstEnd - firstStart, also when the series crosses a DST transition of
\* the request's zone.
C13_SameDuration ==
  \A i \in 1..Len(gen.slots) :
    gen.slots[i].end - gen.slots[i].start = gen.endDate - gen.startDate

\* a monthly expansion in America/New_York of a 90 minute slot has returned
\* occurrences on both sides of the start of daylight time
C13_Witness ==
  /\ gen.pc = "returned" /\ gen.recurring.frequency = "monthly"
  /\ gen.timezone = "America/New_York"
  /\ gen.endDate - gen.startDate = 90
  /\ \E i, j \in 1..Len(gen.slots) :
       /\ ~isDST(gen.timezone, gen.slots[i].start)
       /\ isDST(gen.timezone, gen.slots[j].start)

\* C14: the expansion terminates for every rule: each pass of the loop moves
\* the candidate start strictly towards until, and a rule whose frequency is
\* neither 'weekly' nor 'monthly' produces no occurrence.
C14_ExpansionTerminates ==
  [][/\ (gen.pc = "loop" /\ gen'.pc = "loop") => gen'.current > gen.current
     /\ gen.recurring.frequency \notin {"weekly", "monthly"} => gen'.slots = <<>>
    ]_vars

\* C15: a recurring creation that passed validation and whose until lies
\* before its first start ends with a client error and stores nothing; one
\* whose first start is not after until has at least one occurrence.
C15_EmptyRangeRejected ==
  [][\A p \in Procs :
       (/\ call[p].op = "create" /\ call[p].recurring # NoRecurring
        /\ pc[p] \in {"commit", "rollback"} /\ pc'[p] = "done"
        /\ result'[p] \notin ValidationMsgs \cup {MsgStorage})
       => LET c == call[p]
              occ == generateRecurringSlots(c.start_time, c.end_time, c.recurring, "UTC")
          IN  /\ c.recurring.until < c.start_time =>
                   result'[p] # MsgOk /\ slots' = slots
              /\ c.start_time <= c.recurring.until => Len(occ) >= 1
    ]_vars

\* C16: a creation request is rejected by validation, storing nothing,
\* exactly when its end is not after its start, its duration is below
\* MIN_DURATION_MINUTES or above MAX_DURATION_MINUTES, or its start is before
\* the current time; a single-slot request that violates none of these, meets
\* no unbooked slot of its consultant and no storage failure is accepted.
C16_ValidationRejects ==
  [][\A p \in Procs :
       /\ (pc[p] = "idle" /\ call'[p].op = "create") =>
            LET c == call'[p]
                d == c.end_time - c.start_time
                bad == \/ ~(c.end_time > c.start_time)
                       \/ d < MIN_DURATION_MINUTES
                       \/ d > MAX_DURATION_MINUTES
                       \/ c.start_time < now
            IN  bad <=> (pc'[p] = "rollback" /\ result'[p] \in ValidationMsgs)
       /\ (call[p].op = "create" /\ result[p] \in ValidationMsgs) =>
            /\ slots' = slots
            /\ pc'[p] \in {"rollback", "done"} => result'[p] = result[p]
       /\ (/\ call[p].op = "create" /\ call[p].recurring = NoRecurring
           /\ pc[p] # "done" /\ pc'[p] = "done"
           /\ result'[p] \notin ValidationMsgs \cup {MsgStorage}
           /\ ~Conflict(call[p].consultant_id, call[p].start_time, call[p].end_time))
          => result'[p] = MsgOk
    ]_vars

\* after the clock has passed its start, a request for a slot of allowed
\* length has been rejected as lying in the past, and nothing was stored
C16_Witness ==
  \E p \in Procs :
    /\ call[p].op = "create" /\ pc[p] = "done" /\ result[p] = MsgPast
    /\ call[p].start_time < now
    /\ call[p].end_time - call[p].start_time = MIN_DURATION_MINUTES
    /\ slots = {}

C18_FailureRollsBack ==
  [][\A p \in Procs :
       /\ (pc'[p] # pc[p] /\ slots' # slots) =>
            /\ pc[p] = "commit" /\ pc'[p] = "done"
            /\ result'[p] \in {MsgOk, MsgDeleted}
       /\ (pc[p] # "done" /\ pc'[p] = "done" /\ result'[p] \notin {MsgOk, MsgDeleted}) =>
            /\ slots' = slots
            /\ txn'[p] = EmptyTxn
            /\ held'[p] = {}
    ]_vars

\* a reservation has failed at its COMMIT and the slot it had updated is
\* stored unbooked
C18_Witness ==
  \E p \in Procs :
    /\ call[p].op = "reserve" /\ pc[p] = "done" /\ result[p] = MsgStorage
    /\ \E r \in slots : r.id = call[p].slotId /\ ~r.is_booked

ConflictMsgs == {MsgOverlap, MsgUnavailable, MsgBooked}
NotFoundMsgs == {MsgNotFound, MsgCustomerNotFound, MsgForeignKey}

\* C19: a failure that is a conflict (overlap, slot already booked, delete of
\* a booked slot) is never reported with the status of a failure that is an
\* invalid request or a not-found.
C19_DistinctCategories ==
  \A p, q \in Procs :
    (/\ pc[p] = "done" /\ result[p] \in ConflictMsgs
     /\ pc[q] = "done" /\ result[q] \in ValidationMsgs \cup NotFoundMsgs)
    => \A rp \in responses(p), rq \in responses(q) : rp.statusCode # rq.statusCode

\* C20: a call that failed on an unexpected storage error is answered with
\* status 500, whatever error the driver or the database raised.
C20_StorageFailureIs500 ==
  \A p \in Procs :
    (pc[p] = "done" /\ result[p] = MsgStorage)
    => \A r \in responses(p) : r.statusCode = 500

\* the sequences that hold every row of the set once
Arrangements(rows) ==
  {o \in [1..Cardinality(rows) -> rows] : \A i, j \in DOMAIN o : o[i] = o[j] => i = j}

Ascending(o) == \A i \in 1..(Len(o) - 1) : o[i].start_time <= o[i + 1].start_time

\* the listing's page query has just been answered
PageAnswered == list.pc = "page" /\ list'.pc = "done"

\* C21: the rows getTimeSlots returns are in ascending start order, and they
\* are the rows at positions (p-1)*limit+1 .. p*limit of an ascending order
\* of all rows matching the filter when the page query ran.
C21_OrderedPage ==
  [][PageAnswered =>
       LET page == list'.time_slots
           p == list'.pagination.current_page
           limit == list'.pagination.limit
       IN  /\ Ascending(page)
           /\ \E o \in Arrangements(baseQuery(slots, list.query, now)) :
                /\ Ascending(o)
                /\ page = SubSeq(o, (p - 1) * limit + 1, Min(p * limit, Len(o)))]_vars

\* a second page of two rows has been returned
C21_Witness ==
  /\ list.pc = "done" /\ list.op = "getTimeSlots"
  /\ list.pagination.current_page = 2 /\ list.pagination.limit = 2
  /\ Len(list.time_slots) = 2
  /\ list.pagination.total_items = 5

\* C22: whatever limit the client asks for, the page query runs with a page
\* size of at most MAX_LIMIT, returns no more rows than that, returns a full
\* page when enough rows match, and reports that page size as the limit.
C22_PageSizeBounded ==
  [][PageAnswered =>
       LET size == list'.pagination.limit
           matching == Cardinality(baseQuery(slots, list.query, now))
           skipped == (list'.pagination.current_page - 1) * size
       IN  /\ size <= MAX_LIMIT
           /\ Len(list'.time_slots) <= size
           /\ matching - skipped >= size => Len(list'.time_slots) = size
           /\ truthy(parseInt(list.query.limit)) /\ list.query.limit.n <= MAX_LIMIT
                => size = list.query.limit.n]_vars

\* a client asked for 1000 rows of a store holding more than MAX_LIMIT and got
\* MAX_LIMIT of them
C22_Witness ==
  /\ list.pc = "done" /\ list.op = "getTimeSlots"
  /\ list.query.limit = NumStr(1000)
  /\ list.pagination.total_items > MAX_LIMIT
  /\ Len(list.time_slots) = MAX_LIMIT
  /\ list.pagination.limit = MAX_LIMIT

\* the values of include_booked that omit it or say false: absent, the boolean
\* false, and the string 'false' of a query string
FalseValues == {Undefined, Bool(FALSE), Str("false")}

\* C23: a listing whose include_booked is absent or a false value returns no
\* booked slot.
C23_BookedExcluded ==
  (list.pc = "done" /\ list.op = "getTimeSlots" /\ list.query.include_booked \in FalseValues)
  => \A i \in DOMAIN list.time_slots : ~list.time_slots[i].is_booked

\* C24: two listings with the same query, with the stored slots and the ids
\* handed out the same from the start of the first to the end of the second,
\* return the same rows in the same order and the same pagination metadata.
\* Stated for stores in which no two rows start at the same time, where
\* ORDER BY ts.start_time leaves the database no choice of order.
C24_ListingIdempotent ==
  \A i, j \in DOMAIN list.history :
    LET a == list.history[i]
        b == list.history[j]
    IN  (/\ i < j /\ a.query = b.query /\ a.from = b.to
         /\ \A r, o \in slots : r.start_time = o.start_time => r = o)
        => a.time_slots = b.time_slots /\ a.pagination = b.pagination

C26_WarningReported ==
  \A p \in Procs :
    (pc[p] = "done" /\ call[p].op = "create" /\ result[p] = MsgOk)
    => (responseWarnings(p) # <<>>
        <=> isDST(call[p].body.timezone, call[p].start_time)
              # isDST(call[p].body.timezone, call[p].end_time))

\* C27: a single creation whose times carry no offset stores the slot at the
\* instants that read as those times in the timezone of the request.
C27_StoredInRequestZone ==
  \A p \in Procs :
    (/\ pc[p] = "done" /\ call[p].op = "create" /\ result[p] = MsgOk
     /\ call[p].recurring = NoRecurring /\ ~call[p].body.zulu)
    => LET zone == call[p].body.timezone
           row == RowById(slots, slotRow[p].id)
       IN  /\ row.start_time + utcOffset(zone, row.start_time) = call[p].body.start_time
           /\ row.end_time + utcOffset(zone, row.end_time) = call[p].body.end_time

\* direct calls of the service do store the slot at those instants
ServiceStoresInZone ==
  \A p \in Procs :
    (/\ pc[p] = "done" /\ call[p].op = "create" /\ result[p] = MsgOk
     /\ call[p].recurring = NoRecurring /\ ~call[p].body.zulu /\ ~call[p].http)
    => LET zone == call[p].body.timezone
           row == RowById(slots, slotRow[p].id)
       IN  /\ row.start_time + utcOffset(zone, row.start_time) = call[p].body.start_time
           /\ row.end_time + utcOffset(zone, row.end_time) = call[p].body.end_time

\* direct calls of the service do return the warning exactly then
ServiceWarns ==
  \A p \in Procs :
    (pc[p] = "done" /\ call[p].op = "create" /\ result[p] = MsgOk /\ ~call[p].http)
    => (responseWarnings(p) # <<>>
        <=> isDST(call[p].body.timezone, call[p].start_time)
              # isDST(call[p].body.timezone, call[p].end_time))

\* C28: from one state to the next, a stored slot that is still stored has
\* the consultant, start and end it had; whatever create, reserve, delete,
\* getSlotById or getTimeSlots step is taken, these three never change.
C28_IntervalImmutable ==
  [][\A r \in slots : \A o \in slots' :
       o.id = r.id => /\ o.consultant_id = r.consultant_id
                      /\ o.start_time = r.start_time
                      /\ o.end_time = r.end_time]_vars

\* the slot created in an empty store has since been reserved
C28_Witness ==
  /\ batchOf = <<0>>
  /\ \E r \in slots : r.id = 1 /\ r.is_booked
  /\ pc[1] = "done" /\ call[1].op = "reserve" /\ result[1] = MsgOk

\* C29: every slot a step stores anew carries a recurrence-pattern reference
\* exactly when a recurring creation request inserted it, and slots inserted
\* by one recurring request carry the same reference.
C29_PatternIffRecurring ==
  [][\A r \in slots' \ slots :
       /\ r.recurring_pattern_id # NULL <=> batchOf'[r.id] # 0
       /\ \A o \in slots' \ slots :
            (batchOf'[o.id] = batchOf'[r.id] /\ batchOf'[r.id] # 0)
            => o.recurring_pattern_id = r.recurring_pattern_id]_vars

\* day of the month (1..31) and month of an instant, read in UTC
DayOfMonth(t) == t \div MinutesPerDay - MonthStartDay(MonthOfDay(t \div MinutesPerDay)) + 1
MonthOf(t) == MonthOfDay(t \div MinutesPerDay)

\* C30: the i-th occurrence of a monthly expansion lies i-1 months after the
\* first, and on the first occurrence's day of the month whenever its month
\* has such a day.
C30_MonthlySameDay ==
  (gen.pc = "returned" /\ gen.recurring.frequency = "monthly")
  => \A i \in DOMAIN gen.slots :
       LET t == gen.slots[i].start
       IN  /\ MonthOf(t) = MonthOf(gen.startDate) + (i - 1)
           /\ MonthLen(MonthOf(t)) >= DayOfMonth(gen.startDate)
                => DayOfMonth(t) = DayOfMonth(gen.startDate)

\* the stored slots of the consultant that intersect [start, end)
OwnIntersecting(consultant_id, start, end) ==
  {r \in slots : /\ r.consultant_id = consultant_id
                 /\ Intersects(r.start_time, r.end_time, start, end)}

C32_EndAfterStart ==
  /\ \A r \in slots : r.end_time > r.start_time
  /\ \A p \in AllProcs :
       /\ \A r \in txn[p].ins : r.end_time > r.start_time
       /\ \A i \in 1..Len(todo[p]) : todo[p][i].end > todo[p][i].start

\* the second call, a recurring creation, has stored its occurrences, more
\* than one, after a first call that stored nothing
C32_Witness ==
  /\ calls = 2 /\ Cardinality(slots) = Len(batchOf) /\ Len(batchOf) >= 2
  /\ \A r \in slots : batchOf[r.id] = 1
  /\ \E p \in Procs :
       /\ call[p].op = "create" /\ call[p].recurring # NoRecurring
       /\ pc[p] = "done" /\ result[p] = MsgOk

\* C33: a getSlotById call leaves the stored slots as they are; for the id of
\* a stored slot it returns that slot, for a well-formed id of no stored slot
\* it returns no slot and no error, and for a malformed id it fails with
\* 'Invalid slot ID format'.
C33_GetSlotById ==
  [][(list.pc = "idle" /\ list'.op = "getSlotById") =>
       LET id == list'.slotId
       IN  /\ slots' = slots /\ batchOf' = batchOf
           /\ id \in Ids(slots) =>
                /\ list'.pc = "done" /\ list'.error = MsgNone
                /\ list'.slot \in slots /\ list'.slot.id = id
           /\ (id \notin MalformedSlotIds /\ id \notin Ids(slots)) =>
                list'.pc = "done" /\ list'.error = MsgNone /\ list'.slot = NoRow
           /\ id \in MalformedSlotIds =>
                list'.pc = "failed" /\ list'.error = MsgInvalidId /\ list'.slot = NoRow
    ]_vars

\* a lookup with a malformed id has failed on a store that holds a slot
\* created before it
C33_Witness ==
  /\ list.op = "getSlotById" /\ list.pc = "failed" /\ list.error = MsgInvalidId
  /\ list.slotId \in MalformedSlotIds
  /\ slotRow[1] \in slots /\ call[1].op = "create"

\* C34: whenever a deletion has ended with 'Time slot deleted successfully',
\* the slot it was aimed at is not stored.
C34_DeletedMeansAbsent ==
  \A p \in Procs :
    (call[p].op = "delete" /\ pc[p] = "done" /\ result[p] = MsgDeleted)
      => call[p].slotId \notin Ids(slots)

\* ------------------------------- one reservation against one deletion
\* One unbooked slot; handler 1 serves a reservation of it, handler 2 a
\* deletion of it, each over HTTP or as a direct call of the service, with
\* their statements interleaved in every way.
NextDuel ==
  \/ \E c \in Customers \cup {UnknownCustomer}, http \in BOOLEAN : reserveTimeSlot(1, 1, c, http)
  \/ \E http \in BOOLEAN : deleteTimeSlot(2, 1, http)
  \/ slotReservation(1) \/ ReserveSelect(1) \/ ReserveUpdate(1)
  \/ ControllerDeleteCheck(2) \/ DeleteSelect(2) \/ DeleteRow(2)
  \/ \E p \in {1, 2} : Commit(p) \/ CommitFails(p) \/ Rollback(p)

SpecDuel == InitRace /\ [][NextDuel]_vars

\* slot 1 is stored and booked by the customer of handler 1's reservation
BookedByReserver ==
  \E r \in slots : r.id = 1 /\ r.is_booked /\ r.customer_id = call[1].customer_id

\* C35: with a reservation and a deletion of one unbooked slot running
\* concurrently, a reservation that has reported success has its slot stored
\* and booked by its customer from then on; once both calls have ended, a
\* deletion that reported success next to a failed reservation has left the
\* slot absent, and unless a call failed in the storage or on the customer
\* reference the slot is either absent or stored and booked by the
\* reserving customer.
C35_ReserveOrDelete ==
  /\ (pc[1] = "done" /\ result[1] = MsgOk) => BookedByReserver
  /\ (pc[1] = "done" /\ pc[2] = "done") =>
       /\ (result[1] # MsgOk /\ result[2] = MsgDeleted) => slots = {}
       /\ (/\ result[1] \notin {MsgStorage, MsgForeignKey, MsgCustomerNotFound}
           /\ result[2] # MsgStorage)
          => (slots = {} \/ BookedByReserver)

\* the deletion has committed and the reservation, a direct call of the
\* service, has then found no slot
C35_Witness ==
  /\ pc[1] = "done" /\ pc[2] = "done"
  /\ ~call[1].http /\ result[1] = MsgNotFound
  /\ result[2] = MsgDeleted
  /\ slots = {}

\* ------------------------------------------------ withTransaction, stepwise
\* messages of the errors the driver raises for a failed connect or statement
DriverMsgs == {e.message : e \in StorageErrors}

\* what a callback does: it returns (MsgOk), throws an error of the service,
\* or a statement of its own fails
CallbackOutcomes ==
  {MsgOk, MsgNotFound, MsgUnavailable, MsgBooked, MsgOverlap, MsgPast} \cup DriverMsgs

\* a statement sent on the client and whether it succeeded
Sent(q, ok) == [q |-> q, ok |-> ok]

\* withTransaction(callback) is called
withTransaction(callback) ==
  /\ wt.pc = "idle"
  /\ wt' = [NoWt EXCEPT !.pc = "connect", !.callback = callback]
  /\ UNCHANGED <<slots, batchOf, now, ticks, calls, pc, call, slotRow, todo, txn, held, result,
                 gen, list>>

WtCall == \E callback \in CallbackOutcomes : withTransaction(callback)

\* const client = await pool.connect(), outside the try block: a failure is
\* thrown to the caller as it is, with no client to release
WtConnect ==
  /\ wt.pc = "connect"
  /\ \/ wt' = [wt EXCEPT !.pc = "begin", !.client = TRUE]
     \/ \E e \in DriverMsgs : wt' = [wt EXCEPT !.pc = "thrown", !.failure = e, !.thrown = e]
  /\ UNCHANGED <<slots, batchOf, now, ticks, calls, pc, call, slotRow, todo, txn, held, result,
                 gen, list>>

\* await client.query('BEGIN')
WtBegin ==
  /\ wt.pc = "begin"
  /\ \/ wt' = [wt EXCEPT !.pc = "callback", !.log = Append(@, Sent("BEGIN", TRUE))]
     \/ \E e \in DriverMsgs :
          wt' = [wt EXCEPT !.pc = "catch", !.log = Append(@, Sent("BEGIN", FALSE)),
                           !.failure = e, !.err = e]
  /\ UNCHANGED <<slots, batchOf, now, ticks, calls, pc, call, slotRow, todo, txn, held, result,
                 gen, list>>

\* const result = await callback(client)
WtCallback ==
  /\ wt.pc = "callback"
  /\ wt' = IF wt.callback = MsgOk THEN [wt EXCEPT !.pc = "commit"]
           ELSE [wt EXCEPT !.pc = "catch", !.failure = wt.callback, !.err = wt.callback]
  /\ UNCHANGED <<slots, batchOf, now, ticks, calls, pc, call, slotRow, todo, txn, held, result,
                 gen, list>>

\* await client.query('COMMIT'); return result
WtCommit ==
  /\ wt.pc = "commit"
  /\ \/ wt' = [wt EXCEPT !.pc = "finally", !.log = Append(@, Sent("COMMIT", TRUE))]
     \/ \E e \in DriverMsgs :
          wt' = [wt EXCEPT !.pc = "catch", !.log = Append(@, Sent("COMMIT", FALSE)),
                           !.failure = e, !.err = e]
  /\ UNCHANGED <<slots, batchOf, now, ticks, calls, pc, call, slotRow, todo, txn, held, result,
                 gen, list>>

\* catch (err) { await client.query('ROLLBACK'); throw err; }: the exception
\* in flight after the block when its ROLLBACK succeeded (e = MsgNone) or
\* failed with e
WtCatchThrows(e) == IF e = MsgNone THEN wt.err ELSE e

WtCatch ==
  /\ wt.pc = "catch"
  /\ \E e \in {MsgNone} \cup DriverMsgs :
       wt' = [wt EXCEPT !.pc = "finally",
                        !.log = Append(@, Sent("ROLLBACK", e = MsgNone)),
                        !.err = WtCatchThrows(e)]
  /\ UNCHANGED <<slots, batchOf, now, ticks, calls, pc, call, slotRow, todo, txn, held, result,
                 gen, list>>

\* finally { client.release(); }, then the return value or the exception in
\* flight reaches the caller
WtFinally ==
  /\ wt.pc = "finally"
  /\ wt' = [wt EXCEPT !.pc = IF wt.err = MsgNone THEN "returned" ELSE "thrown",
                      !.thrown = wt.err,
                      !.released = @ + 1]
  /\ UNCHANGED <<slots, batchOf, now, ticks, calls, pc, call, slotRow, todo, txn, held, result,
                 gen, list>>

NextTxn == WtCall \/ WtConnect \/ WtBegin \/ WtCallback \/ WtCommit \/ WtCatch \/ WtFinally

\* One run of withTransaction, every statement of which may fail.
SpecTxn == Init /\ [][NextTxn]_vars

\* the statements q sent in the run, as positions of the log
SentAt(q) == {i \in DOMAIN wt.log : wt.log[i].q = q}

\* The run that got a client has sent BEGIN first and once, COMMIT and ROLLBACK
\* at most once each, a ROLLBACK exactly when BEGIN, the callback or COMMIT
\* failed and then no successful COMMIT, has returned exactly when nothing
\* failed, and has released the client once.
WithTransactionProtocol ==
  (wt.pc \in {"returned", "thrown"} /\ wt.client) =>
    /\ SentAt("BEGIN") = {1}
    /\ Cardinality(SentAt("COMMIT")) <= 1 /\ Cardinality(SentAt("ROLLBACK")) <= 1
    /\ wt.failure = MsgNone =>
         wt.log = <<Sent("BEGIN", TRUE), Sent("COMMIT", TRUE)>> /\ wt.pc = "returned"
    /\ wt.failure # MsgNone =>
         /\ Cardinality(SentAt("ROLLBACK")) = 1
         /\ wt.log[Len(wt.log)].q = "ROLLBACK"
         /\ Sent("COMMIT", TRUE) \notin {wt.log[i] : i \in DOMAIN wt.log}
         /\ wt.pc = "thrown"
    /\ wt.released = 1

\* C36: a finished run of withTransaction that got a client has kept to the
\* protocol above (BEGIN, then one successful COMMIT or one ROLLBACK, the
\* client released once), and when BEGIN, the callback or COMMIT failed, the
\* caller gets that failure.
C36_TransactionProtocol ==
  /\ WithTransactionProtocol
  /\ (wt.pc \in {"returned", "thrown"} /\ wt.client /\ wt.failure # MsgNone) =>
       wt.thrown = wt.failure

\* --------------------------------------------- calls on a finite pool
\* Direct calls of the service by NumRacers handlers, one call each, on a pool
\* of PoolSize clients: a call waits in pool.connect until a client is free,
\* keeps it from BEGIN to the release in withTransaction's finally block, and
\* a recurring creation runs #generateRecurringSlots pass by pass.
TxnPcs == {"expand", "check", "insert", "select", "update", "delete", "commit", "rollback"}

\* handler p is between pool.connect and client.release
HoldsClient(p) == pc[p] \in TxnPcs

\* idle clients of the pool
FreeClients == PoolSize - Cardinality({p \in AllProcs : HoldsClient(p)})

LiveRules ==
  {NoRecurring, Rule("weekly", 660 + MinutesPerWeek, TRUE), Rule("daily", 660, TRUE)}

LiveRequests ==
  {[NoCall EXCEPT !.op = "reserve", !.slotId = 1, !.customer_id = "customer1"],
   [NoCall EXCEPT !.op = "delete", !.slotId = 1]}
  \cup {[NoCall EXCEPT !.op = "create", !.consultant_id = "consultant1",
                       !.start_time = 660, !.end_time = 720, !.recurring = r,
                       !.body = [NoBody EXCEPT !.start_time = 660, !.end_time = 720]] :
          r \in LiveRules}

\* a call of the service begins: withTransaction asks the pool for a client
Arrive(p) ==
  /\ pc[p] = "idle"
  /\ \E request \in LiveRequests : call' = [call EXCEPT ![p] = request]
  /\ calls' = calls + 1
  /\ pc' = [pc EXCEPT ![p] = "connect"]
  /\ UNCHANGED <<wt, gen, list, slots, batchOf, now, ticks, slotRow, todo, txn, held, result>>

\* pool.connect resolves once a client is idle; BEGIN, and the callback up to
\* its first await: the SELECT of a reservation or deletion is sent, a
\* creation validates its times and enters #generateRecurringSlots (which
\* runs synchronously, one run at a time) or sends its overlap check
Connect(p) ==
  LET c == call[p]
      v == validateAndConvertTime(c.start_time, c.end_time, now)
      expands == c.op = "create" /\ v = MsgOk /\ c.recurring # NoRecurring
  IN  /\ pc[p] = "connect"
      /\ FreeClients > 0
      /\ expands => gen.pc = "idle"
      /\ pc' = [pc EXCEPT ![p] = IF c.op # "create" THEN "select"
                                 ELSE IF v # MsgOk THEN "rollback"
                                 ELSE IF expands THEN "expand"
                                 ELSE "check"]
      /\ result' = [result EXCEPT ![p] = IF c.op = "create" /\ v # MsgOk THEN v ELSE @]
      /\ gen' = IF expands THEN GenCall(c.start_time, c.end_time, c.recurring, c.timezone)
                ELSE gen
      /\ UNCHANGED <<wt, list, slots, batchOf, now, ticks, calls, call, slotRow, todo, txn, held>>

\* #generateRecurringSlots has returned: Promise.all queues one INSERT per
\* occurrence on the client
Expanded(p) ==
  /\ pc[p] = "expand"
  /\ gen.pc = "returned"
  /\ todo' = [todo EXCEPT ![p] = gen.slots]
  /\ pc' = [pc EXCEPT ![p] = IF gen.slots = <<>> THEN "commit" ELSE "insert"]
  /\ gen' = NoGen
  /\ UNCHANGED <<wt, list, slots, batchOf, now, ticks, calls, call, slotRow, txn, held, result>>

\* the synchronous code of #generateRecurringSlots
Generate == GenerateEnter \/ GenerateLoop \/ GenerateReturn

\* what a handler's call does once it has begun
LiveStep(p) ==
  \/ Connect(p) \/ Expanded(p) \/ CheckOverlap(p) \/ Insert(p)
  \/ ReserveSelect(p) \/ ReserveUpdate(p) \/ DeleteSelect(p) \/ DeleteRow(p)
  \/ Commit(p) \/ CommitFails(p) \/ Rollback(p)

NextLive ==
  \/ \E p \in Racers : Arrive(p) \/ LiveStep(p)
  \/ Generate

\* Fair scheduling: a call that can take a step, and a running loop, are not
\* held up for ever.
SpecLive ==
  /\ InitRace /\ [][NextLive]_vars
  /\ \A p \in Racers : WF_vars(LiveStep(p))
  /\ WF_vars(Generate)

\* a call with a recurrence rule of a frequency other than weekly and monthly
UnknownFrequency ==
  \E p \in Racers : /\ call[p].op = "create"
                    /\ call[p].recurring.frequency \notin {"none", "weekly", "monthly"}

\* every call that has begun ends with its client released and its locks
\* given up, unless a call with a rule of another frequency has begun
KnownFrequenciesComplete ==
  \A p \in Racers :
    (pc[p] # "idle") ~> ((pc[p] = "done" /\ ~HoldsClient(p) /\ held[p] = {}) \/ UnknownFrequency)

\* no call holding a client waits for a second one, and no call holding a
\* row lock waits for a lock
NoHoldAndWait ==
  \A p \in Racers :
    /\ pc[p] = "connect" => held[p] = {}
    /\ HoldsClient(p) => pc[p] # "connect"
    /\ Cardinality(held[p]) <= 1
    /\ (held[p] # {} /\ pc[p] \in {"update", "delete"}) =>
         \A r \in slots : r.id = call[p].slotId => ~LockedByOther(p, r.id)

\* C37: under fair scheduling, on a finite pool, every call of
\* reserveTimeSlot, createTimeSlot and deleteTimeSlot that has begun ends
\* (with success or an error) with its client back in the pool.
C37_EveryCallCompletes ==
  \A p \in Racers : (pc[p] # "idle") ~> (pc[p] = "done" /\ ~HoldsClient(p) /\ held[p] = {})

\* the operation of the call handler p is taking a step of
StepOf(p) == IF pc[p] = "idle" THEN call'[p].op ELSE call[p].op

\* C38: a step of a reservation or deletion of slot s, whether the call
\* succeeds or fails, leaves every stored slot other than s as it is and
\* stores no other slot; a reservation keeps the number of stored slots and
\* changes s, if at all, in is_booked and customer_id only; a deletion never
\* raises and a creation never lowers the number of stored slots, and a step
\* of no call leaves the stored slots as they are.
C38_FrameOfReserveDelete ==
  [][/\ (\A p \in Procs : pc'[p] = pc[p]) => slots' = slots
     /\ \A p \in Procs :
       pc'[p] # pc[p] =>
         LET s == IF pc[p] = "idle" THEN call'[p].slotId ELSE call[p].slotId
             c == call[p].customer_id
         IN  /\ StepOf(p) \in {"reserve", "delete"} =>
                  /\ \A r \in slots : r.id # s => r \in slots'
                  /\ \A r \in slots' : r.id # s => r \in slots
             /\ StepOf(p) = "reserve" =>
                  /\ Ids(slots') = Ids(slots)
                  /\ \A r \in slots : r.id = s =>
                       (r \in slots' \/ [r EXCEPT !.is_booked = TRUE, !.customer_id = c] \in slots')
             /\ StepOf(p) = "delete" => Ids(slots') \subseteq Ids(slots)
             /\ StepOf(p) = "create" => slots \subseteq slots'
    ]_vars

\* a reservation of the second slot of the series has succeeded next to a
\* deletion of it that failed, and the first slot is stored as it was
C38_Witness ==
  \E p, q \in Procs :
    /\ call[p].op = "reserve" /\ call[p].slotId = 2 /\ pc[p] = "done" /\ result[p] = MsgOk
    /\ call[q].op = "delete" /\ call[q].slotId = 2 /\ pc[q] = "done" /\ result[q] = MsgBooked
    /\ slots = {r \in SeriesStore : r.id = 1}
               \cup {[r EXCEPT !.is_booked = TRUE, !.customer_id = call[p].customer_id] :
                       r \in {x \in SeriesStore : x.id = 2}}

\* a page, when it is answered, holds only slots that have not started at
\* the clock reading of its statement, and total_pages is
\* ceil(total_items / limit)
PageOfFutureSlots ==
  [][PageAnswered =>
       /\ \A i \in DOMAIN list'.time_slots : list'.time_slots[i].start_time >= now
       /\ list'.pagination.total_pages
            = Ceil(list'.pagination.total_items, list'.pagination.limit)
    ]_vars

\* C39: a page, when it is answered, holds only slots that have not started,
\* its total_items is the number of stored slots that satisfy the filter the
\* page was selected with (stated here for a clock that has stood still, so
\* that no slot has started in the meantime), and its total_pages is
\* ceil(total_items / limit).
C39_CountMatchesPage ==
  [][PageAnswered =>
       /\ \A i \in DOMAIN list'.time_slots : list'.time_slots[i].start_time >= now
       /\ ticks = 0 =>
            list'.pagination.total_items = Cardinality(baseQuery(slots, list.query, now))
       /\ list'.pagination.total_pages
            = Ceil(list'.pagination.total_items, list'.pagination.limit)
    ]_vars

====
